---- MODULE Spec2Model ----
(***************************************************************************)
(* A model of terminal-canvas: the Cursor (src/src/Cursor.js), its cell    *)
(* buffer, pen and diff-based flush, with the Color conversion it uses     *)
(* (src/src/Color.js).                                                     *)
(*                                                                         *)
(* The Cursor's fields are the variables.  Cell (./Cell) and               *)
(* encodeToVT100 (./util/encodeToVT100) are imported by Cursor.js but are  *)
(* not among the sources; they are modelled from the specification         *)
(* (sections 3, 4.2 and 6): a Cell is a value of five fields and its       *)
(* encoding is a string that positions the cursor, sets the colours and    *)
(* attributes, and prints the character.  The fields _width and _height    *)
(* are read by write and getPointerFromXY and assigned nowhere in          *)
(* Cursor.js: they are the dimensions handed in by the dimensions          *)
(* provider (specification section 6), here Width and Height.              *)
(*                                                                         *)
(* Init gives each field the value the constructor's statements ask for;  *)
(* _lastFrame, which the constructor never assigns, is undefined, and      *)
(* _terminal is the array handed to the constructor, of width * height     *)
(* slots, none written.                                                    *)
(*                                                                         *)
(* Exceptions are part of the behaviour: thrown records what the most      *)
(* recent call threw, and a call that throws keeps the assignments it      *)
(* made before the throw.  The source is an ES module, hence strict code.  *)
(*                                                                         *)
(* Several specifications share the actions: Spec makes every call of the  *)
(* Cursor, on short runs; SpecFrames makes longer runs of fewer calls, to  *)
(* follow a frame over several flushes; SpecSink does the same on a sink   *)
(* whose write may throw; SpecWrite makes the calls that write, move and   *)
(* set the pen; SpecGrid makes every kind of call, with fewer rectangles    *)
(* for erase.  These start from Init.                                      *)
(*                                                                         *)
(* SpecColor runs the Color class on its own (create, the channel setters, *)
(* toHex and back) and the constructor of the Cursor as its statements are *)
(* written, starting before the Cursor exists.  Numbers are kept as twice  *)
(* their value, so that Math.round has halves to round, and strings as     *)
(* sequences of characters, so that the patterns, toString(16) and         *)
(* parseInt are computed character by character.                           *)
(***************************************************************************)
EXTENDS Integers, Sequences, FiniteSets, TLC

VARIABLES
    _terminal,    \* this._terminal: the flat array of cells, holes for unwritten slots
    _lastFrame,   \* this._lastFrame: the Set of encodings of the last flush, or undefined
    _x,           \* this._x
    _y,           \* this._y
    _background,  \* this._background
    _foreground,  \* this._foreground
    _display,     \* this._display
    stdout,       \* the strings the most recent call passed to process.stdout.write
    screen,       \* the terminal device: per position, the encodings it received, in order
    call,         \* the name of the most recent call
    previous,     \* the name of the call before it
    thrown,       \* what the most recent call threw: "none", "TypeError" or "Error"
    ops,          \* number of calls made so far
    limit,        \* number of calls the run may make
    instance      \* a Color made by Color.create and held by the caller, or none

vars == <<_terminal, _lastFrame, _x, _y, _background, _foreground, _display,
          stdout, screen, call, previous, thrown, ops, limit, instance>>

-----------------------------------------------------------------------------
(* Bounds of the model *)

\* this._width, as handed in by the dimensions provider
Width == 2
\* this._height, as handed in by the dimensions provider
Height == 2
\* how far outside the grid the arguments and the cursor range
MaxOff == 1
\* number of calls in a run of Spec and of SpecWrite
MaxOps == 3
\* number of calls in a run of SpecFrames
MaxFrameOps == 9
\* number of calls in a run of SpecSink
MaxSinkOps == 5
\* number of calls in a run of SpecColor
MaxColorOps == 2

Xs == (0 - MaxOff)..(Width - 1 + MaxOff)
Ys == (0 - MaxOff)..(Height - 1 + MaxOff)
\* positions the relative movements may lead to: one further right, where write
\* leaves the cursor
CursorXs == (0 - MaxOff)..(Width + MaxOff)
CursorYs == Ys
\* positions given to moveTo
MoveToInputs == (Xs \X Ys) \cup {<<-3, -2>>}
Pointers == 0..(Width * Height - 1)

\* texts given to write, as data.split('') yields them
WriteInputs == {<<"a">>, <<"b">>, <<"a", "b">>}
\* colours given to foreground() and background(): {r, g, b} records
ColorInputs == {[r |-> 255, g |-> 0, b |-> 0], [r |-> 300, g |-> 0 - 5, b |-> 0]}
\* distances given to up, down, left and right
MoveInputs == 1..2
\* offsets given to moveBy
OffsetInputs == (0 - 1)..1

-----------------------------------------------------------------------------
(* Values *)

\* an array slot that was never assigned (reads as undefined)
Hole == [hole |-> TRUE]
\* a field the constructor never assigns
Undefined == [undefined |-> TRUE]
\* the member a Set built from an array with holes holds for them
UndefinedMember == "undefined"
\* the colour requested by the constructor: setBackground(false), setForeground(false)
Unset == [unset |-> TRUE]
\* the value the constructor gives the display: setDisplay(false), a primitive
NoDisplay == [primitive |-> FALSE]
\* a display object with every mode off
AllOff == [bold |-> FALSE, dim |-> FALSE, underlined |-> FALSE,
           blink |-> FALSE, reverse |-> FALSE, hidden |-> FALSE]
DisplayInputs == {NoDisplay, AllOff}

IsCell(slot) == slot # Hole

-----------------------------------------------------------------------------
(* Color.js *)

\* Math.max(0, Math.min(value, 255))
Clamp(value) == IF value < 0 THEN 0 ELSE IF value > 255 THEN 255 ELSE value

\* Color.create({r, g, b}).toRgb(): the setters clamp; the getters round, which
\* is the identity on the integers used here
ColorToRgb(color) == [r |-> Clamp(color.r), g |-> Clamp(color.g), b |-> Clamp(color.b)]

-----------------------------------------------------------------------------
(* Color.js: the values of JavaScript it handles *)

\* a number: twice its value, so that the halves are numbers too
Num(twice) == [type |-> "number", nan |-> FALSE, twice |-> twice]
NaN == [type |-> "number", nan |-> TRUE, twice |-> 0]
\* a string: the sequence of its characters
Str(chars) == [type |-> "string", chars |-> chars]
\* the primitive false
False == [type |-> "boolean", value |-> FALSE]
\* a property the object does not have
Missing == [missing |-> TRUE]
\* an object: its own properties r, g and b, those it has
Obj(r, g, b) == [type |-> "object", r |-> r, g |-> g, b |-> b]

TypeOf(value) == IF value = Undefined THEN "undefined" ELSE value.type

\* Object.prototype.hasOwnProperty.call(value, key): boxes a primitive, which
\* has no such property
hasOwnProperty(value, key) == TypeOf(value) = "object" /\ value[key] # Missing

\* value[key] of an object
Get(value, key) == IF value[key] = Missing THEN Undefined ELSE value[key]

LowerCase == <<"a", "b", "c", "d", "e", "f", "g", "h", "i", "j", "k", "l", "m",
               "n", "o", "p", "q", "r", "s", "t", "u", "v", "w", "x", "y", "z">>
UpperCase == <<"A", "B", "C", "D", "E", "F", "G", "H", "I", "J", "K", "L", "M",
               "N", "O", "P", "Q", "R", "S", "T", "U", "V", "W", "X", "Y", "Z">>
Digits == <<"0", "1", "2", "3", "4", "5", "6", "7", "8", "9">>
\* the digits Number.prototype.toString(16) writes
HexDigits == Digits \o <<"a", "b", "c", "d", "e", "f">>

Has(chars, char) == \E i \in 1..Len(chars) : chars[i] = char
IndexOf(chars, char) == CHOOSE i \in 1..Len(chars) : chars[i] = char

UpperOf(char) == IF Has(LowerCase, char) THEN UpperCase[IndexOf(LowerCase, char)] ELSE char
LowerOf(char) == IF Has(UpperCase, char) THEN LowerCase[IndexOf(UpperCase, char)] ELSE char

\* String.prototype.toUpperCase
toUpperCase(chars) == [i \in 1..Len(chars) |-> UpperOf(chars[i])]

\* the value of a run of decimal digits
RECURSIVE DecimalValue(_)
DecimalValue(chars) ==
    IF chars = <<>> THEN 0
    ELSE 10 * DecimalValue(SubSeq(chars, 1, Len(chars) - 1))
         + (IndexOf(Digits, chars[Len(chars)]) - 1)

\* parseInt(chars, 16) of a run of hexadecimal digits, of either case
RECURSIVE parseInt16(_)
parseInt16(chars) ==
    IF chars = <<>> THEN 0
    ELSE 16 * parseInt16(SubSeq(chars, 1, Len(chars) - 1))
         + (IndexOf(HexDigits, LowerOf(chars[Len(chars)])) - 1)

\* n.toString(16) of an integer that is not negative
RECURSIVE IntToString16(_)
IntToString16(n) ==
    IF n < 16 THEN <<HexDigits[n + 1]>>
    ELSE IntToString16(n \div 16) \o <<HexDigits[(n % 16) + 1]>>

\* value.toString(16) of a number that getR, getG or getB returns
toString16(value) == IF value.nan THEN <<"N", "a", "N">> ELSE IntToString16(value.twice \div 2)

\* the conversion to a number that Math.min applies to its argument: of a
\* number, of undefined, and of a run of digits matched by RGB_REGEX
ToNumber(value) ==
    IF TypeOf(value) = "number" THEN value
    ELSE IF TypeOf(value) = "string" /\ value.chars # <<>>
                                     /\ \A i \in 1..Len(value.chars) : Has(Digits, value.chars[i])
         THEN Num(2 * DecimalValue(value.chars))
         ELSE NaN

\* Math.min(value, 255)
MathMin255(value) ==
    LET n == ToNumber(value) IN IF n.nan THEN NaN ELSE IF n.twice > 2 * 255 THEN Num(2 * 255) ELSE n

\* Math.max(0, n)
MathMax0(n) == IF n.nan THEN NaN ELSE IF n.twice < 0 THEN Num(0) ELSE n

\* Math.round(n): to the nearest integer, a half upwards
MathRound(n) == IF n.nan THEN NaN ELSE Num(2 * ((n.twice + 1) \div 2))

-----------------------------------------------------------------------------
(* Color.js: the patterns *)

\* RGB_REGEX, not anchored, case ignored: where it matches from position i with
\* runs of a, b and c digits
RgbMatchesAt(chars, i, a, b, c) ==
    LET r == i + 4
        g == r + a + 2
        k == g + b + 2
    IN  /\ k + c <= Len(chars)
        /\ toUpperCase(SubSeq(chars, i, i + 3)) = <<"R", "G", "B", "(">>
        /\ \A j \in r..(r + a - 1) : Has(Digits, chars[j])
        /\ SubSeq(chars, r + a, r + a + 1) = <<",", " ">>
        /\ \A j \in g..(g + b - 1) : Has(Digits, chars[j])
        /\ SubSeq(chars, g + b, g + b + 1) = <<",", " ">>
        /\ \A j \in k..(k + c - 1) : Has(Digits, chars[j])
        /\ chars[k + c] = ")"

RgbMatches(chars) ==
    {m \in (1..Len(chars)) \X (1..3) \X (1..3) \X (1..3) :
        RgbMatchesAt(chars, m[1], m[2], m[3], m[4])}

\* HEX_REGEX, not anchored, case ignored: the positions it matches from
HexMatches(chars) ==
    {m \in {<<i>> : i \in 1..Len(chars)} :
        /\ m[1] + 6 <= Len(chars)
        /\ chars[m[1]] = "#"
        /\ \A j \in (m[1] + 1)..(m[1] + 6) : Has(HexDigits, LowerOf(chars[j]))}

\* the leftmost of the matches
First(matches) == CHOOSE m \in matches : \A other \in matches : m[1] <= other[1]

-----------------------------------------------------------------------------
(* Color.js: the class *)

\* some entries of Color.COLORS
COLORS ==
    (<<"B", "L", "A", "C", "K">> :> <<"#", "0", "0", "0", "0", "0", "0">>)
    @@ (<<"R", "E", "D">> :> <<"#", "E", "E", "2", "0", "4", "D">>)
    @@ (<<"T", "A", "N">> :> <<"#", "F", "A", "A", "7", "6", "C">>)

\* no Color: the constructor threw
NoColor == [none |-> TRUE]

\* this._r = Math.max(0, Math.min(value, 255))
setR(this, value) == [this EXCEPT !._r = MathMax0(MathMin255(value))]
setG(this, value) == [this EXCEPT !._g = MathMax0(MathMin255(value))]
setB(this, value) == [this EXCEPT !._b = MathMax0(MathMin255(value))]

getR(this) == MathRound(this._r)
getG(this) == MathRound(this._g)
getB(this) == MathRound(this._b)

toRgb(this) == Obj(getR(this), getG(this), getB(this))

\* the digits with no padding
pad2None(chars) == chars

pad2(chars) == IF Len(chars) = 1 THEN <<"0">> \o chars ELSE chars

toHex(this) ==
    <<"#">> \o pad2(toString16(getR(this))) \o pad2(toString16(getG(this)))
            \o pad2(toString16(getB(this)))

isNamed(color) == TypeOf(color) = "string" /\ toUpperCase(color.chars) \in DOMAIN COLORS

\* RGB_REGEX.test(rgb): only a string can hold the pattern
isRgb(rgb) == TypeOf(rgb) = "string" /\ RgbMatches(rgb.chars) # {}

\* HEX_REGEX.test(hex)
isHex(hex) == TypeOf(hex) = "string" /\ HexMatches(hex.chars) # {}

RECURSIVE create(_)

\* Color.fromRgb(rgb): the three runs of digits, as strings, to create
fromRgb(rgb) ==
    IF ~isRgb(rgb) THEN [thrown |-> "TypeError", color |-> NoColor]
    ELSE LET m == First(RgbMatches(rgb.chars))
             r == m[1] + 4
             g == r + m[2] + 2
             b == g + m[3] + 2
         IN  create(Obj(Str(SubSeq(rgb.chars, r, r + m[2] - 1)),
                        Str(SubSeq(rgb.chars, g, g + m[3] - 1)),
                        Str(SubSeq(rgb.chars, b, b + m[4] - 1))))

\* Color.fromHex(hex): the three pairs of digits, parsed, to create
fromHex(hex) ==
    IF ~isHex(hex) THEN [thrown |-> "TypeError", color |-> NoColor]
    ELSE LET i == First(HexMatches(hex.chars))[1]
         IN  create(Obj(Num(2 * parseInt16(SubSeq(hex.chars, i + 1, i + 2))),
                        Num(2 * parseInt16(SubSeq(hex.chars, i + 3, i + 4))),
                        Num(2 * parseInt16(SubSeq(hex.chars, i + 5, i + 6)))))

\* Color.create(color), that is new Color(color): the Color made, or what the
\* constructor threw
create(color) ==
    IF isNamed(color) THEN fromHex(Str(COLORS[toUpperCase(color.chars)]))
    ELSE IF isRgb(color) THEN fromRgb(color)
    ELSE IF isHex(color) THEN fromHex(color)
    ELSE IF color = Undefined
    THEN [thrown |-> "TypeError", color |-> NoColor]
    ELSE IF ~(\/ hasOwnProperty(color, "r")
              \/ hasOwnProperty(color, "g")
              \/ hasOwnProperty(color, "b"))
    THEN [thrown |-> "Error", color |-> NoColor]
    ELSE [thrown |-> "none",
          color |-> setB(setG(setR([_r |-> Num(0), _g |-> Num(0), _b |-> Num(0)],
                                   Get(color, "r")), Get(color, "g")), Get(color, "b"))]

-----------------------------------------------------------------------------
(* Cell and its encoding *)

\* new Cell(char, {x, y, background, foreground, display})
Cell(char, x, y, background, foreground, display) ==
    [char |-> char, x |-> x, y |-> y, background |-> background,
     foreground |-> foreground, display |-> display]

\* cell.setChar(char)
setChar(cell, char) == [cell EXCEPT !.char = char]

\* the escape sequence for a control code
encodeToVT100(code) == "^[" \o code

ColorCode(layer, color) ==
    IF color = Unset THEN ""
    ELSE encodeToVT100("[" \o layer \o ";2;" \o ToString(color.r) \o ";"
                       \o ToString(color.g) \o ";" \o ToString(color.b) \o "m")

DisplayCode(display) ==
    IF display = NoDisplay THEN ""
    ELSE (IF display.bold THEN encodeToVT100("[1m") ELSE "")
         \o (IF display.dim THEN encodeToVT100("[2m") ELSE "")
         \o (IF display.underlined THEN encodeToVT100("[4m") ELSE "")
         \o (IF display.blink THEN encodeToVT100("[5m") ELSE "")
         \o (IF display.reverse THEN encodeToVT100("[7m") ELSE "")
         \o (IF display.hidden THEN encodeToVT100("[8m") ELSE "")

\* cell.toString(): position, background, foreground, attributes, character, reset
CellToString(cell) ==
    encodeToVT100("[" \o ToString(cell.y + 1) \o ";" \o ToString(cell.x + 1) \o "f")
    \o ColorCode("48", cell.background)
    \o ColorCode("38", cell.foreground)
    \o DisplayCode(cell.display)
    \o cell.char
    \o encodeToVT100("[0m")

-----------------------------------------------------------------------------
(* Cursor.js: helpers *)

\* an index that counts down the columns instead of along the rows
getPointerFromXYByColumns(x, y) == x * Height + y

getPointerFromXY(x, y) == y * Width + x

\* [index - Math.floor(index / width) * width, Math.floor(index / width)]
getXYFromPointer(index) == <<index - (index \div Width) * Width, index \div Width>>

\* a bounds check made on the index instead of on x and y
InBoundsByPointer(x, y) == 0 <= getPointerFromXY(x, y) /\ getPointerFromXY(x, y) < Width * Height

\* 0 <= x && x < this._width && 0 <= y && y < this._height
InBounds(x, y) == 0 <= x /\ x < Width /\ 0 <= y /\ y < Height

\* this._terminal[pointer]: undefined outside the array and in its holes
At(terminal, pointer) == IF pointer \in DOMAIN terminal THEN terminal[pointer] ELSE Hole

\* the indexes of the stored cells, ascending
RECURSIVE StoredFrom(_, _)
StoredFrom(terminal, pointer) ==
    IF pointer \notin DOMAIN terminal THEN <<>>
    ELSE (IF IsCell(terminal[pointer]) THEN <<pointer>> ELSE <<>>)
         \o StoredFrom(terminal, pointer + 1)

Stored(terminal) == StoredFrom(terminal, 0)

\* array.join('') of the cells at the given indexes
RECURSIVE Join(_, _)
Join(terminal, pointers) ==
    IF pointers = <<>> THEN ""
    ELSE CellToString(terminal[Head(pointers)]) \o Join(terminal, Tail(pointers))

\* one call is made: the common part of every action
Made(name) ==
    ops < limit /\ ops' = ops + 1 /\ call' = name /\ previous' = call /\ UNCHANGED limit

\* one call of the Cursor is made: it leaves the caller's Color alone
Called(name) == Made(name) /\ UNCHANGED instance

-----------------------------------------------------------------------------
(* Cursor.js: constructor *)

Constructed ==
    /\ _terminal = [pointer \in Pointers |-> Hole]
    /\ _lastFrame = Undefined
    /\ _x = 0
    /\ _y = 0
    /\ _background = Unset
    /\ _foreground = Unset
    /\ _display = NoDisplay
    /\ stdout = <<>>
    /\ screen = [pointer \in Pointers |-> <<>>]
    /\ call = "constructor"
    /\ previous = "none"
    /\ thrown = "none"
    /\ ops = 0
    /\ instance = NoColor

Init == Constructed /\ limit = MaxOps

-----------------------------------------------------------------------------
(* Cursor.js: write *)

\* a write that wraps: x restarts at the next row once it reaches the width
RECURSIVE writeCharsWrapping(_, _, _, _, _, _, _)
writeCharsWrapping(terminal, data, x, y, background, foreground, display) ==
    IF data = <<>> THEN terminal
    ELSE LET column == IF x >= Width THEN 0 ELSE x
             row == IF x >= Width THEN y + 1 ELSE y
             pointer == getPointerFromXY(column, row)
             stored == IF InBounds(column, row)
                       THEN [terminal EXCEPT ![pointer] =
                                Cell(Head(data), column, row, background, foreground, display)]
                       ELSE terminal
         IN  writeCharsWrapping(stored, Tail(data), column + 1, row,
                                background, foreground, display)

RECURSIVE writeChars(_, _, _, _, _, _, _)
writeChars(terminal, data, x, y, background, foreground, display) ==
    IF data = <<>> THEN terminal
    ELSE LET pointer == getPointerFromXY(x, y)
             stored == IF InBounds(x, y)
                       THEN [terminal EXCEPT ![pointer] =
                                Cell(Head(data), x, y, background, foreground, display)]
                       ELSE terminal
         IN  writeChars(stored, Tail(data), x + 1, y, background, foreground, display)

write(data) ==
    /\ Called("write")
    /\ _x + Len(data) <= Width + MaxOff
    /\ _terminal' = writeChars(_terminal, data, _x, _y, _background, _foreground, _display)
    /\ _x' = _x + Len(data)
    /\ thrown' = "none"
    /\ stdout' = <<>>
    /\ UNCHANGED <<_lastFrame, _y, _background, _foreground, _display, screen>>

-----------------------------------------------------------------------------
(* Cursor.js: flush *)

\* item => !this._lastFrame.has(item.toString())
Changed(terminal, lastFrame) ==
    SelectSeq(Stored(terminal), LAMBDA p : CellToString(terminal[p]) \notin lastFrame.has)

\* a snapshot that adds the current encodings to those it held
NewFrameKeepingOld(terminal) ==
    [has |-> {CellToString(terminal[p]) : p \in {q \in DOMAIN terminal : IsCell(terminal[q])}}
             \cup (IF _lastFrame = Undefined THEN {} ELSE _lastFrame.has)]

\* a snapshot of the emitted cells alone
NewFrameOfChanged(terminal) ==
    [has |-> IF _lastFrame = Undefined THEN {}
             ELSE {CellToString(terminal[p]) :
                      p \in {q \in DOMAIN terminal :
                                /\ IsCell(terminal[q])
                                /\ CellToString(terminal[q]) \notin _lastFrame.has}}]

\* new Set(this._terminal.map(i => i.toString()))
NewFrame(terminal) ==
    [has |-> {CellToString(terminal[p]) : p \in {q \in DOMAIN terminal : IsCell(terminal[q])}}
             \cup (IF \E q \in DOMAIN terminal : ~IsCell(terminal[q])
                   THEN {UndefinedMember} ELSE {})]

\* the device after receiving the encodings of the given cells
RECURSIVE Receive(_, _, _)
Receive(device, terminal, pointers) ==
    IF pointers = <<>> THEN device
    ELSE LET cell == terminal[Head(pointers)]
             position == cell.y * Width + cell.x
         IN  Receive([device EXCEPT ![position] = Append(device[position], CellToString(cell))],
                     terminal, Tail(pointers))

\* the filter callback reads this._lastFrame.has for the first stored cell
FlushThrows == _lastFrame = Undefined /\ Stored(_terminal) # <<>>

\* the two outcomes of process.stdout.write: it returns, or it throws
SinkOutcomes == {"written", "failed"}

\* flush() were the snapshot taken before the write: it is replaced whatever
\* the sink does
flushToAfterSnapshot(outcome) ==
    /\ Called("flush")
    /\ IF FlushThrows
       THEN /\ thrown' = "TypeError"
            /\ stdout' = <<>>
            /\ UNCHANGED <<_lastFrame, screen>>
       ELSE LET changed == IF _lastFrame = Undefined THEN <<>>
                           ELSE Changed(_terminal, _lastFrame)
            IN  /\ stdout' = <<Join(_terminal, changed)>>
                /\ _lastFrame' = NewFrame(_terminal)
                /\ IF outcome = "failed"
                   THEN thrown' = "Error" /\ UNCHANGED screen
                   ELSE thrown' = "none" /\ screen' = Receive(screen, _terminal, changed)
    /\ UNCHANGED <<_terminal, _x, _y, _background, _foreground, _display>>

\* flush() with the given outcome of its write to the sink: when the write
\* throws, the statement that replaces the snapshot is not reached
flushTo(outcome) ==
    /\ Called("flush")
    /\ IF FlushThrows
       THEN /\ thrown' = "TypeError"
            /\ stdout' = <<>>
            /\ UNCHANGED <<_lastFrame, screen>>
       ELSE LET changed == IF _lastFrame = Undefined THEN <<>>
                           ELSE Changed(_terminal, _lastFrame)
            IN  /\ stdout' = <<Join(_terminal, changed)>>
                /\ IF outcome = "failed"
                   THEN /\ thrown' = "Error"
                        /\ UNCHANGED <<_lastFrame, screen>>
                   ELSE /\ thrown' = "none"
                        /\ screen' = Receive(screen, _terminal, changed)
                        /\ _lastFrame' = NewFrame(_terminal)
    /\ UNCHANGED <<_terminal, _x, _y, _background, _foreground, _display>>

\* flush() on a sink that takes the write
flush == flushTo("written")

\* flush() on a sink whose write throws
flushFailing == ~FlushThrows /\ flushTo("failed")

-----------------------------------------------------------------------------
(* Cursor.js: movement *)

\* the calls that only move the cursor
Moved(name, x, y) ==
    /\ Called(name)
    /\ _x' = x
    /\ _y' = y
    /\ thrown' = "none"
    /\ stdout' = <<>>
    /\ UNCHANGED <<_terminal, _lastFrame, _background, _foreground, _display, screen>>

up(y) == _y - y \in CursorYs /\ Moved("up", _x, _y - y)

down(y) == _y + y \in CursorYs /\ Moved("down", _x, _y + y)

right(x) == _x + x \in CursorXs /\ Moved("right", _x + x, _y)

left(x) == _x - x \in CursorXs /\ Moved("left", _x - x, _y)

\* a horizontal move that stops at the first column
moveByXClamped(x) == IF _x + x < 0 THEN 0 ELSE _x + x

\* if (x < 0) this.left(-x); if (x > 0) this.right(x); and the same for y
moveByX(x) == IF x < 0 THEN _x - (0 - x) ELSE IF x > 0 THEN _x + x ELSE _x

moveByY(y) == IF y < 0 THEN _y - (0 - y) ELSE IF y > 0 THEN _y + y ELSE _y

moveBy(x, y) ==
    moveByX(x) \in CursorXs /\ moveByY(y) \in CursorYs /\ Moved("moveBy", moveByX(x), moveByY(y))

moveTo(x, y) == Moved("moveTo", x, y)

-----------------------------------------------------------------------------
(* Cursor.js: pen *)

PenFrame == UNCHANGED <<_terminal, _lastFrame, _x, _y, screen>>

foreground(color) ==
    /\ Called("foreground")
    /\ _foreground' = ColorToRgb(color)
    /\ thrown' = "none"
    /\ stdout' = <<>>
    /\ PenFrame
    /\ UNCHANGED <<_background, _display>>

background(color) ==
    /\ Called("background")
    /\ _background' = ColorToRgb(color)
    /\ thrown' = "none"
    /\ stdout' = <<>>
    /\ PenFrame
    /\ UNCHANGED <<_foreground, _display>>

setDisplay(display) ==
    /\ Called("setDisplay")
    /\ _display' = display
    /\ thrown' = "none"
    /\ stdout' = <<>>
    /\ PenFrame
    /\ UNCHANGED <<_background, _foreground>>

\* the assignment as it would act were every cell written with the pen to
\* share the pen's display object: the cells change with the pen
SetModeShared(name, display) ==
    /\ Called(name)
    /\ IF _display = NoDisplay
       THEN thrown' = "TypeError" /\ UNCHANGED <<_display, _terminal>>
       ELSE /\ thrown' = "none"
            /\ _display' = display
            /\ _terminal' = [p \in Pointers |->
                                IF IsCell(_terminal[p]) /\ _terminal[p].display = _display
                                THEN [_terminal[p] EXCEPT !.display = display]
                                ELSE _terminal[p]]
    /\ stdout' = <<>>
    /\ UNCHANGED <<_lastFrame, _x, _y, screen, _background, _foreground>>

\* this._display.<mode> = value: a TypeError in strict code when this._display
\* is the primitive false
SetMode(name, display) ==
    /\ Called(name)
    /\ IF _display = NoDisplay
       THEN thrown' = "TypeError" /\ UNCHANGED _display
       ELSE thrown' = "none" /\ _display' = display
    /\ stdout' = <<>>
    /\ PenFrame
    /\ UNCHANGED <<_background, _foreground>>

bold(isBold) == SetMode("bold", [_display EXCEPT !.bold = isBold])

dim(isDim) == SetMode("dim", [_display EXCEPT !.dim = isDim])

underlined(isUnderlined) == SetMode("underlined", [_display EXCEPT !.underlined = isUnderlined])

blink(isBlink) == SetMode("blink", [_display EXCEPT !.blink = isBlink])

reverse(isReverse) == SetMode("reverse", [_display EXCEPT !.reverse = isReverse])

hidden(isHidden) == SetMode("hidden", [_display EXCEPT !.hidden = isHidden])

-----------------------------------------------------------------------------
(* Cursor.js: erase *)

Max0(n) == IF n < 0 THEN 0 ELSE n

\* the indexes erase visits, in the order of its loops: y from y1 to y2, and in
\* each row x from x1 to x2
RectPointers(x1, y1, x2, y2) ==
    LET nx == Max0(x2 - x1 + 1)
        ny == Max0(y2 - y1 + 1)
    IN  [k \in 1..(nx * ny) |-> getPointerFromXY(x1 + ((k - 1) % nx), y1 + ((k - 1) \div nx))]

\* an erase that deletes the cells it visits instead of blanking them
RECURSIVE eraseCellsDeleting(_, _)
eraseCellsDeleting(terminal, pointers) ==
    IF pointers = <<>> THEN [terminal |-> terminal, thrown |-> "none"]
    ELSE LET pointer == Head(pointers)
         IN  IF ~IsCell(At(terminal, pointer))
             THEN [terminal |-> terminal, thrown |-> "TypeError"]
             ELSE eraseCellsDeleting([terminal EXCEPT ![pointer] = Hole], Tail(pointers))

\* this._terminal[pointer].setChar(' ') for each index in turn; the first index
\* that holds no cell ends the loops with a TypeError
RECURSIVE eraseCells(_, _)
eraseCells(terminal, pointers) ==
    IF pointers = <<>> THEN [terminal |-> terminal, thrown |-> "none"]
    ELSE LET pointer == Head(pointers)
         IN  IF ~IsCell(At(terminal, pointer))
             THEN [terminal |-> terminal, thrown |-> "TypeError"]
             ELSE eraseCells([terminal EXCEPT ![pointer] = setChar(terminal[pointer], " ")],
                             Tail(pointers))

erase(x1, y1, x2, y2) == eraseCells(_terminal, RectPointers(x1, y1, x2, y2))

Erased(name, result) ==
    /\ Called(name)
    /\ _terminal' = result.terminal
    /\ thrown' = result.thrown
    /\ stdout' = <<>>
    /\ UNCHANGED <<_lastFrame, _x, _y, _background, _foreground, _display, screen>>

eraseRegion(x1, y1, x2, y2) == Erased("erase", erase(x1, y1, x2, y2))

eraseToEnd == Erased("eraseToEnd", erase(_x, _y, Width - 1, _y))

eraseToStart == Erased("eraseToStart", erase(0, _y, _x, _y))

eraseToDown == Erased("eraseToDown", erase(0, _y, Width - 1, Height - 1))

eraseToUp == Erased("eraseToUp", erase(0, 0, Width - 1, _y))

eraseLine == Erased("eraseLine", erase(0, _y, Width - 1, _y))

eraseScreen == Erased("eraseScreen", erase(0, 0, Width - 1, Height - 1))

-----------------------------------------------------------------------------
Next ==
    \/ \E data \in WriteInputs : write(data)
    \/ flush
    \/ \E n \in MoveInputs : up(n)
    \/ \E n \in MoveInputs : down(n)
    \/ \E n \in MoveInputs : right(n)
    \/ \E n \in MoveInputs : left(n)
    \/ \E x \in OffsetInputs, y \in OffsetInputs : moveBy(x, y)
    \/ \E position \in MoveToInputs : moveTo(position[1], position[2])
    \/ \E color \in ColorInputs : foreground(color)
    \/ \E color \in ColorInputs : background(color)
    \/ \E display \in DisplayInputs : setDisplay(display)
    \/ \E v \in BOOLEAN : bold(v)
    \/ \E v \in BOOLEAN : dim(v)
    \/ \E v \in BOOLEAN : underlined(v)
    \/ \E v \in BOOLEAN : blink(v)
    \/ \E v \in BOOLEAN : reverse(v)
    \/ \E v \in BOOLEAN : hidden(v)
    \/ \E x1 \in Xs, y1 \in Ys, x2 \in Xs, y2 \in Ys :
          x1 <= x2 /\ y1 <= y2 /\ eraseRegion(x1, y1, x2, y2)
    \/ eraseToEnd
    \/ eraseToStart
    \/ eraseToDown
    \/ eraseToUp
    \/ eraseLine
    \/ eraseScreen

Spec == Init /\ [][Next]_vars

-----------------------------------------------------------------------------
(* Longer runs of fewer calls: frames written, changed, reverted and flushed *)

InitFrames == Constructed /\ limit = MaxFrameOps

NextFrames ==
    \/ \E data \in {<<"a">>, <<"b">>} : write(data)
    \/ flush
    \/ left(1)
    \/ moveTo(0, 1)
    \/ background([r |-> 255, g |-> 0, b |-> 0])
    \/ eraseLine

SpecFrames == InitFrames /\ [][NextFrames]_vars

-----------------------------------------------------------------------------
(* Runs of every kind of call over the grid *)

\* rectangles given to erase: on the grid, one column or row beyond it, and one
\* that starts before it
EraseInputs ==
    {<<x1, y1, x2, y2>> : x1 \in 0..(Width - 1), y1 \in 0..(Height - 1),
                          x2 \in 0..Width, y2 \in 0..Height}
    \cup {<<0 - 1, 0, 0, 0>>}

NextGrid ==
    \/ \E data \in WriteInputs : write(data)
    \/ \E position \in MoveToInputs : moveTo(position[1], position[2])
    \/ \E x \in OffsetInputs, y \in OffsetInputs : moveBy(x, y)
    \/ \E color \in ColorInputs : background(color)
    \/ \E display \in DisplayInputs : setDisplay(display)
    \/ \E v \in BOOLEAN : bold(v)
    \/ flush
    \/ \E r \in EraseInputs : r[1] <= r[3] /\ r[2] <= r[4] /\ eraseRegion(r[1], r[2], r[3], r[4])
    \/ eraseToEnd
    \/ eraseToStart
    \/ eraseToDown
    \/ eraseToUp
    \/ eraseLine
    \/ eraseScreen

SpecGrid == Init /\ [][NextGrid]_vars

-----------------------------------------------------------------------------
(* Runs over frames on a sink that may fail *)

InitSink == Constructed /\ limit = MaxSinkOps

NextSink ==
    \/ \E data \in {<<"a">>, <<"b">>} : write(data)
    \/ flush
    \/ flushFailing
    \/ left(1)
    \/ moveTo(0, 1)
    \/ background([r |-> 255, g |-> 0, b |-> 0])
    \/ eraseLine

SpecSink == InitSink /\ [][NextSink]_vars

-----------------------------------------------------------------------------
(* Runs of the calls that write, move and set the pen *)

NextWrite ==
    \/ \E data \in WriteInputs : write(data)
    \/ \E n \in MoveInputs : up(n)
    \/ \E n \in MoveInputs : down(n)
    \/ \E n \in MoveInputs : right(n)
    \/ \E n \in MoveInputs : left(n)
    \/ \E x \in OffsetInputs, y \in OffsetInputs : moveBy(x, y)
    \/ \E position \in MoveToInputs : moveTo(position[1], position[2])
    \/ \E color \in ColorInputs : foreground(color)
    \/ \E color \in ColorInputs : background(color)
    \/ \E display \in DisplayInputs : setDisplay(display)
    \/ \E v \in BOOLEAN : bold(v)
    \/ \E v \in BOOLEAN : dim(v)
    \/ \E v \in BOOLEAN : underlined(v)
    \/ \E v \in BOOLEAN : blink(v)
    \/ \E v \in BOOLEAN : reverse(v)
    \/ \E v \in BOOLEAN : hidden(v)

SpecWrite == Init /\ [][NextWrite]_vars

-----------------------------------------------------------------------------
(* Color.js and the constructor of Cursor.js: their calls *)

\* channel values given to Color: -5, 0, 10, 12.5, 171, 255 and 300
ChannelInputs == {Num(0 - 10), Num(0), Num(20), Num(25), Num(342), Num(510), Num(600)}
\* records with the three channels
RecordInputs == {Obj(r, g, b) : r \in ChannelInputs, g \in ChannelInputs, b \in ChannelInputs}
\* records that lack channels: {r: 10}, {g: 10, b: 171} and {}
PartialInputs == {Obj(Num(20), Missing, Missing), Obj(Missing, Num(20), Num(342)),
                  Obj(Missing, Missing, Missing)}
\* 'red', 'Tan', 'nocolor', 'rgb(10, 300, 07)', 'RGB(0, 0, 171)', 'rgb(1,2,3)',
\* '#0aFF10', '#fff' and 'x#0aFF100'
StringInputs ==
    {Str(<<"r", "e", "d">>), Str(<<"T", "a", "n">>),
     Str(<<"n", "o", "c", "o", "l", "o", "r">>),
     Str(<<"r", "g", "b", "(", "1", "0", ",", " ", "3", "0", "0", ",", " ", "0", "7", ")">>),
     Str(<<"R", "G", "B", "(", "0", ",", " ", "0", ",", " ", "1", "7", "1", ")">>),
     Str(<<"r", "g", "b", "(", "1", ",", "2", ",", "3", ")">>),
     Str(<<"#", "0", "a", "F", "F", "1", "0">>),
     Str(<<"#", "f", "f", "f">>),
     Str(<<"x", "#", "0", "a", "F", "F", "1", "0", "0">>)}
\* values given to Color.create
CreateInputs == RecordInputs \cup PartialInputs \cup StringInputs \cup {False, Undefined}
\* the dimensions the provider may hand in
DimensionInputs == (0 - 1)..2

\* the fields of a Cursor, its sink and its device
CursorFrame ==
    UNCHANGED <<_terminal, _lastFrame, _x, _y, _background, _foreground, _display,
                stdout, screen>>

\* instance = Color.create(value): nothing is assigned when the constructor throws
newColor(value) ==
    /\ Made("create")
    /\ thrown' = create(value).thrown
    /\ instance' = IF create(value).thrown = "none" THEN create(value).color ELSE instance
    /\ CursorFrame

\* instance.setR(value)
callSetR(value) ==
    /\ instance # NoColor
    /\ Made("setR")
    /\ instance' = setR(instance, value)
    /\ thrown' = "none"
    /\ CursorFrame

\* instance.setG(value)
callSetG(value) ==
    /\ instance # NoColor
    /\ Made("setG")
    /\ instance' = setG(instance, value)
    /\ thrown' = "none"
    /\ CursorFrame

\* instance.setB(value)
callSetB(value) ==
    /\ instance # NoColor
    /\ Made("setB")
    /\ instance' = setB(instance, value)
    /\ thrown' = "none"
    /\ CursorFrame

\* instance = Color.create(instance.toHex())
newColorOfHex ==
    /\ instance # NoColor
    /\ Made("toHex")
    /\ thrown' = create(Str(toHex(instance))).thrown
    /\ instance' = IF create(Str(toHex(instance))).thrown = "none"
                   THEN create(Str(toHex(instance))).color
                   ELSE instance
    /\ CursorFrame

\* no Cursor yet: no field is assigned.  The fields that hold an array and
\* numbers once assigned are given an empty array and a number here, which no
\* statement reads before the constructor assigns them.
Unconstructed ==
    /\ _terminal = <<>>
    /\ _lastFrame = Undefined
    /\ _x = 0 - 1
    /\ _y = 0 - 1
    /\ _background = Undefined
    /\ _foreground = Undefined
    /\ _display = Undefined
    /\ stdout = <<>>
    /\ screen = [pointer \in Pointers |-> <<>>]
    /\ call = "none"
    /\ previous = "none"
    /\ thrown = "none"
    /\ ops = 0
    /\ instance = NoColor

\* new Cursor(terminal), terminal an array of width * height slots: the
\* statements of the constructor in their order, up to the one that throws.
\* Neither dimension is read.
constructor(width, height) ==
    /\ call = "none"
    /\ Made("constructor")
    /\ _terminal' = [pointer \in 0..(width * height - 1) |-> Hole]
    /\ _x' = 0
    /\ _y' = 0
    /\ IF create(False).thrown # "none"
       THEN /\ thrown' = create(False).thrown
            /\ UNCHANGED <<_background, _foreground, _display>>
       ELSE /\ thrown' = "none"
            /\ _background' = toRgb(create(False).color)
            /\ _foreground' = toRgb(create(False).color)
            /\ _display' = NoDisplay
    /\ UNCHANGED <<_lastFrame, stdout, screen, instance>>

InitColor == Unconstructed /\ limit = MaxColorOps

NextColor ==
    \/ \E value \in CreateInputs : newColor(value)
    \/ \E value \in ChannelInputs : callSetR(value)
    \/ \E value \in ChannelInputs : callSetG(value)
    \/ \E value \in ChannelInputs : callSetB(value)
    \/ newColorOfHex
    \/ \E width \in DimensionInputs, height \in DimensionInputs : constructor(width, height)

SpecColor == InitColor /\ [][NextColor]_vars

-----------------------------------------------------------------------------
(* The claims: what they speak of *)

\* (x, y) is a position of the grid
OnGrid(x, y) == x \in 0..(Width - 1) /\ y \in 0..(Height - 1)

\* the slot of position (x, y): the row-major index
SlotOf(x, y) == y * Width + x

\* the slots of the inclusive rectangle that lie on the grid
RectSlots(x1, y1, x2, y2) ==
    {SlotOf(x, y) : <<x, y>> \in {xy \in (x1..x2) \X (y1..y2) : OnGrid(xy[1], xy[2])}}

\* the cell with its character replaced by a space and nothing else changed
Blanked(cell) ==
    [char |-> " ", x |-> cell.x, y |-> cell.y, background |-> cell.background,
     foreground |-> cell.foreground, display |-> cell.display]

\* the retained snapshot as a set of encodings: empty before the first flush
Retained == IF _lastFrame = Undefined THEN {} ELSE _lastFrame.has \ {UndefinedMember}

\* the encodings of the cells the buffer holds
Encodings == {CellToString(_terminal[p]) : p \in {q \in Pointers : IsCell(_terminal[q])}}

\* the text the call passed to the sink, all its writes together
RECURSIVE Emitted(_)
Emitted(out) == IF out = <<>> THEN "" ELSE Head(out) \o Emitted(Tail(out))

\* the last encoding the device received for the slot, "" when it received none
Shown(p) == IF screen[p] = <<>> THEN "" ELSE screen[p][Len(screen[p])]

\* the concatenation of the encodings of the cells at the slots of S, ascending
RECURSIVE Concat(_, _)
Concat(S, from) ==
    IF from > Width * Height - 1 THEN ""
    ELSE (IF from \in S THEN CellToString(_terminal[from]) ELSE "") \o Concat(S, from + 1)

-----------------------------------------------------------------------------
(* flush *)

\* C1: every flush() passes to the sink, in one write, the concatenation in
\* ascending slot order of the encodings of the stored cells whose encoding is
\* not in the retained snapshot set (empty until a flush has filled it); the
\* unwritten slots add nothing.
C1_FlushWritesTheDifference ==
    [][flush =>
        stdout' = <<Concat({p \in Pointers : /\ IsCell(_terminal[p])
                                             /\ CellToString(_terminal[p]) \notin Retained}, 0)>>
      ]_vars

\* the device shows, at the position of every stored cell, that cell's encoding
InSync ==
    \A p \in Pointers :
        IsCell(_terminal[p]) =>
            Shown(SlotOf(_terminal[p].x, _terminal[p].y)) = CellToString(_terminal[p])

\* C2: right after every flush that succeeded, the last encoding the sink
\* received for the position of each stored cell is that cell's current
\* encoding: no changed cell was skipped.
C2_InSyncAfterFlush == (call = "flush" /\ thrown = "none") => InSync

\* a flush has just re-emitted a cell that went A -> B -> A over three flushes
C2_Witness ==
    /\ call = "flush"
    /\ thrown = "none"
    /\ \E p \in Pointers :
        LET n == Len(screen[p])
        IN  /\ n >= 3
            /\ screen[p][n] = screen[p][n - 2]
            /\ screen[p][n] # screen[p][n - 1]
            /\ IsCell(_terminal[p])
            /\ CellToString(_terminal[p]) = screen[p][n]

\* C3: after every flush the retained snapshot is the set of the encodings of
\* all the stored cells, and the flush has emitted exactly the cells whose
\* encoding differs from the one of the previous flush (all of them at the
\* first flush), in slot order.
C3_SnapshotOfTheWholeFrame ==
    [][flush =>
        /\ _lastFrame' # Undefined
        /\ _lastFrame'.has \ {UndefinedMember} = Encodings
        /\ Emitted(stdout') =
              Concat({p \in Pointers : /\ IsCell(_terminal[p])
                                       /\ CellToString(_terminal[p]) # Shown(p)}, 0)
      ]_vars

\* C4: a flush() that immediately follows a flush() emits nothing.
C4_SecondFlushEmitsNothing ==
    [][(call = "flush" /\ call' = "flush" /\ ops' = ops + 1) => Emitted(stdout') = ""]_vars

\* a flush of a buffer that holds cells has immediately followed a flush, and
\* has completed
C4_Witness ==
    /\ call = "flush"
    /\ previous = "flush"
    /\ thrown = "none"
    /\ stdout = <<"">>
    /\ Encodings # {}

\* C5: the snapshot of a new Cursor is the empty set: a flush() made before any
\* flush has completed runs without error and emits every cell stored so far,
\* once each.
C5_FirstFlushEmitsEveryCell ==
    [][(flush /\ _lastFrame = Undefined /\ \A p \in Pointers : screen[p] = <<>>) =>
        /\ thrown' = "none"
        /\ stdout' = <<Concat({p \in Pointers : IsCell(_terminal[p])}, 0)>>
      ]_vars

-----------------------------------------------------------------------------
(* write *)

\* C6: write(text) at (x0, y0) stores, for each i with (x0 + i, y0) on the
\* grid, a new cell at slot y0 * width + x0 + i with the i-th character and the
\* pen of the call's entry; it changes no other slot, wraps onto no other row,
\* leaves y alone and leaves the cursor at (x0 + n, y0).
C6_WriteStoresTheText ==
    [][\A data \in WriteInputs :
        write(data) =>
            /\ \A i \in 1..Len(data) :
                  OnGrid(_x + i - 1, _y) =>
                      _terminal'[SlotOf(_x + i - 1, _y)] =
                          [char |-> data[i], x |-> _x + i - 1, y |-> _y,
                           background |-> _background, foreground |-> _foreground,
                           display |-> _display]
            /\ \A p \in Pointers :
                  p \notin RectSlots(_x, _y, _x + Len(data) - 1, _y) =>
                      _terminal'[p] = _terminal[p]
            /\ _x' = _x + Len(data)
            /\ _y' = _y
            /\ thrown' = "none"
      ]_vars

\* "ab" was written with a coloured pen at the last column of a row that is not
\* the last: "a" is stored there, the cursor is past the width, and the next
\* row is untouched
C6_Witness ==
    /\ call = "write"
    /\ _x = Width + 1
    /\ OnGrid(Width - 1, _y)
    /\ _y + 1 < Height
    /\ IsCell(_terminal[SlotOf(Width - 1, _y)])
    /\ _terminal[SlotOf(Width - 1, _y)].char = "a"
    /\ _terminal[SlotOf(Width - 1, _y)].background # Unset
    /\ ~IsCell(_terminal[SlotOf(0, _y + 1)])

\* C7: a write all of whose target positions are off the grid changes no slot
\* and raises no error, and still advances x by one per character.
C7_OffGridWriteStoresNothing ==
    [][\A data \in WriteInputs :
        (write(data) /\ \A i \in 1..Len(data) : ~OnGrid(_x + i - 1, _y)) =>
            /\ _terminal' = _terminal
            /\ thrown' = "none"
            /\ _x' = _x + Len(data)
            /\ _y' = _y
      ]_vars

\* moveTo(-3, -2) and then the write of one character: no slot holds a cell and
\* the cursor is at (-2, -2)
C7_Witness ==
    /\ call = "write"
    /\ previous = "moveTo"
    /\ ops = 2
    /\ thrown = "none"
    /\ _x = -2
    /\ _y = -2
    /\ \A p \in Pointers : ~IsCell(_terminal[p])

-----------------------------------------------------------------------------
(* erase *)

\* the erase of the rectangle has blanked its written cells and changed
\* nothing else
BlanksTheWrittenCells(x1, y1, x2, y2) ==
    \A p \in Pointers :
        _terminal'[p] = IF p \in RectSlots(x1, y1, x2, y2) /\ IsCell(_terminal[p])
                        THEN Blanked(_terminal[p])
                        ELSE _terminal[p]

\* C8: erase(x1, y1, x2, y2) with x1 <= x2 and y1 <= y2 on the grid replaces
\* the character of every written cell of the rectangle by a space, keeps its
\* position, colours and attributes, and removes no cell.
C8_EraseBlanksTheWrittenCells ==
    [][\A x1 \in 0..(Width - 1), x2 \in 0..(Width - 1),
          y1 \in 0..(Height - 1), y2 \in 0..(Height - 1) :
            (x1 <= x2 /\ y1 <= y2 /\ eraseRegion(x1, y1, x2, y2)) =>
                BlanksTheWrittenCells(x1, y1, x2, y2)
      ]_vars

\* some position of the rectangle is off the grid
OffGrid(x1, y1, x2, y2) == \E x \in x1..x2, y \in y1..y2 : ~OnGrid(x, y)

\* the erase of the rectangle has raised no error and has changed no slot but
\* those of the rectangle that are on the grid
AbsorbsTheRest(x1, y1, x2, y2) ==
    /\ thrown' = "none"
    /\ \A p \in Pointers : _terminal'[p] # _terminal[p] => p \in RectSlots(x1, y1, x2, y2)

\* C9: erase, and each erase variant, of a rectangle partly or wholly off the
\* grid raises no error and changes only slots whose position is in the
\* rectangle and on the grid: a position off the grid is ignored, and is never
\* taken, through y * width + x, for a slot of another row.
C9_EraseAbsorbsOffGridPositions ==
    [][/\ \A x1 \in Xs, x2 \in Xs, y1 \in Ys, y2 \in Ys :
            (eraseRegion(x1, y1, x2, y2) /\ OffGrid(x1, y1, x2, y2)) =>
                AbsorbsTheRest(x1, y1, x2, y2)
       /\ (eraseToEnd /\ OffGrid(_x, _y, Width - 1, _y)) =>
                AbsorbsTheRest(_x, _y, Width - 1, _y)
       /\ (eraseToStart /\ OffGrid(0, _y, _x, _y)) => AbsorbsTheRest(0, _y, _x, _y)
       /\ (eraseToDown /\ OffGrid(0, _y, Width - 1, Height - 1)) =>
                AbsorbsTheRest(0, _y, Width - 1, Height - 1)
       /\ (eraseToUp /\ OffGrid(0, 0, Width - 1, _y)) => AbsorbsTheRest(0, 0, Width - 1, _y)
       /\ (eraseLine /\ OffGrid(0, _y, Width - 1, _y)) => AbsorbsTheRest(0, _y, Width - 1, _y)
      ]_vars

\* the erase of the rectangle has raised no error, has left each unwritten slot
\* unwritten or blank, and has gone on to blank the written cells
PassesTheUnwritten(x1, y1, x2, y2) ==
    /\ thrown' = "none"
    /\ \A p \in RectSlots(x1, y1, x2, y2) :
          IF IsCell(_terminal[p])
          THEN _terminal'[p] = Blanked(_terminal[p])
          ELSE \/ ~IsCell(_terminal'[p])
               \/ _terminal'[p].char = " "

\* C10: erase over a slot of the grid that was never written completes without
\* error, leaves that slot unwritten or holding a blank cell, and goes on over
\* the other slots of the rectangle; eraseScreen on a partly written buffer
\* blanks every written cell.
C10_EraseOfUnwrittenSlots ==
    [][/\ \A x1 \in 0..(Width - 1), x2 \in 0..(Width - 1),
             y1 \in 0..(Height - 1), y2 \in 0..(Height - 1) :
            (/\ x1 <= x2
             /\ y1 <= y2
             /\ eraseRegion(x1, y1, x2, y2)
             /\ \E p \in RectSlots(x1, y1, x2, y2) : ~IsCell(_terminal[p])) =>
                PassesTheUnwritten(x1, y1, x2, y2)
       /\ (eraseScreen /\ \E p \in Pointers : ~IsCell(_terminal[p])) =>
                PassesTheUnwritten(0, 0, Width - 1, Height - 1)
      ]_vars

-----------------------------------------------------------------------------
(* pen *)

Modes == {"bold", "dim", "underlined", "blink", "reverse", "hidden"}

\* every stored cell is the cell it was, with the encoding it had, and no slot
\* has gained or lost a cell; the cursor and the snapshot are as they were
LeavesTheFrame ==
    /\ \A p \in Pointers :
          /\ IsCell(_terminal'[p]) = IsCell(_terminal[p])
          /\ IsCell(_terminal[p]) =>
                /\ _terminal'[p] = _terminal[p]
                /\ CellToString(_terminal'[p]) = CellToString(_terminal[p])
    /\ _x' = _x
    /\ _y' = _y
    /\ _lastFrame' = _lastFrame

\* of the pen, the call has changed at most the flag named mode, to value
SetsOnlyTheFlag(mode, value) ==
    /\ _background' = _background
    /\ _foreground' = _foreground
    /\ IF _display = NoDisplay
       THEN _display' = _display
       ELSE /\ _display'[mode] = value
            /\ \A other \in Modes \ {mode} : _display'[other] = _display[other]

\* C11: a pen setter (foreground, background, bold, dim, underlined, blink,
\* reverse, hidden) leaves every stored cell with the character, colours,
\* attributes and encoding it had, and leaves the cursor position and the
\* snapshot alone; a colour setter leaves the other colour and the flags, and
\* an attribute setter changes no flag but its own.
C11_PenSettersChangeOnlyThePen ==
    [][/\ call' \in {"foreground", "background"} =>
            \A color \in ColorInputs :
                /\ foreground(color) =>
                      LeavesTheFrame /\ _background' = _background /\ _display' = _display
                /\ background(color) =>
                      LeavesTheFrame /\ _foreground' = _foreground /\ _display' = _display
       /\ call' \in Modes =>
            \A v \in BOOLEAN :
                /\ bold(v) => LeavesTheFrame /\ SetsOnlyTheFlag("bold", v)
                /\ dim(v) => LeavesTheFrame /\ SetsOnlyTheFlag("dim", v)
                /\ underlined(v) => LeavesTheFrame /\ SetsOnlyTheFlag("underlined", v)
                /\ blink(v) => LeavesTheFrame /\ SetsOnlyTheFlag("blink", v)
                /\ reverse(v) => LeavesTheFrame /\ SetsOnlyTheFlag("reverse", v)
                /\ hidden(v) => LeavesTheFrame /\ SetsOnlyTheFlag("hidden", v)
      ]_vars

\* bold has just been switched on over a cell that was written without it
C11_Witness ==
    /\ call = "bold"
    /\ thrown = "none"
    /\ _display # NoDisplay
    /\ _display.bold
    /\ \E p \in Pointers :
          /\ IsCell(_terminal[p])
          /\ _terminal[p].display = AllOff

-----------------------------------------------------------------------------
(* construction *)

\* C12: constructing a Cursor succeeds and yields the initial state: the
\* cursor at (0, 0), the background and the foreground of the pen unset, the
\* six attribute flags false and each of them settable, and every slot of the
\* grid unwritten.
C12_ConstructionYieldsTheInitialState ==
    [][\A width \in 1..2, height \in 1..2 :
          constructor(width, height) =>
              /\ thrown' = "none"
              /\ _x' = 0
              /\ _y' = 0
              /\ _background' = Unset
              /\ _foreground' = Unset
              /\ _display' = AllOff
              /\ \A pointer \in 0..(width * height - 1) : ~IsCell(_terminal'[pointer])
      ]_vars

-----------------------------------------------------------------------------
(* a sink that fails *)

\* C13: a flush() whose write to the sink fails leaves the retained snapshot
\* as it was, and the flush() that retries it, with no call in between, hands
\* the sink the same difference as the failed one.
C13_FailedFlushKeepsTheSnapshot ==
    [][/\ flushFailing => _lastFrame' = _lastFrame
       /\ (call = "flush" /\ thrown = "Error" /\ (flush \/ flushFailing)) => stdout' = stdout
      ]_vars

\* the retry of a failed flush has just emitted the cells the failed one held
C13_Witness ==
    /\ call = "flush"
    /\ previous = "flush"
    /\ thrown = "none"
    /\ Emitted(stdout) # ""
    /\ InSync

\* C14: constructing a Cursor over a buffer whose width or height is not
\* positive fails at construction, with the configuration error
\* InvalidBufferDimensions.
C14_InvalidDimensionsAreRejected ==
    [][\A width \in DimensionInputs, height \in DimensionInputs :
          (constructor(width, height) /\ (width <= 0 \/ height <= 0)) =>
              thrown' = "InvalidBufferDimensions"
      ]_vars

-----------------------------------------------------------------------------
(* coordinates and indices *)

\* C15: getPointerFromXY and getXYFromPointer are inverses on the grid:
\* getXYFromPointer(getPointerFromXY(x, y)) = [x, y] for every position of the
\* grid, and getPointerFromXY of getXYFromPointer(i) is i for every index of
\* the grid; so every stored cell is found back from the index of its slot.
C15_PointerAndXYAreInverses ==
    /\ \A x \in 0..(Width - 1), y \in 0..(Height - 1) :
          getXYFromPointer(getPointerFromXY(x, y)) = <<x, y>>
    /\ \A i \in 0..(Width * Height - 1) :
          getPointerFromXY(getXYFromPointer(i)[1], getXYFromPointer(i)[2]) = i
    /\ \A i \in DOMAIN _terminal :
          IsCell(_terminal[i]) => getXYFromPointer(i) = <<_terminal[i].x, _terminal[i].y>>

\* a cell is stored in the last column of the last row
C15_Witness ==
    \E i \in DOMAIN _terminal :
        /\ IsCell(_terminal[i])
        /\ _terminal[i].x = Width - 1
        /\ _terminal[i].y = Height - 1
        /\ i = Width * Height - 1

-----------------------------------------------------------------------------
(* Color *)

\* the number is an integer of 0..255
IsByte(n) == ~n.nan /\ n.twice % 2 = 0 /\ 0 <= n.twice /\ n.twice <= 2 * 255

\* the stored channel is the value given, brought to 0 from below and to 255
\* from above
Saturated(stored, value) ==
    stored = (IF value.twice < 0 THEN Num(0)
              ELSE IF value.twice > 2 * 255 THEN Num(2 * 255) ELSE value)

\* C16: every channel of every Color is an integer of 0..255: toRgb() returns
\* three numbers of that range whatever the Color was created from and
\* whatever its setters were given, and setR, setG and setB store a value
\* below 0 as 0 and one above 255 as 255.
C16_ChannelsAreBytes ==
    [][/\ instance' # NoColor =>
            /\ IsByte(toRgb(instance').r)
            /\ IsByte(toRgb(instance').g)
            /\ IsByte(toRgb(instance').b)
       /\ \A value \in ChannelInputs :
            /\ callSetR(value) => Saturated(instance'._r, value)
            /\ callSetG(value) => Saturated(instance'._g, value)
            /\ callSetB(value) => Saturated(instance'._b, value)
      ]_vars

\* the value the two digits write, in base 16
PairValue(high, low) == 16 * (IndexOf(HexDigits, high) - 1) + (IndexOf(HexDigits, low) - 1)

\* C17: for a Color whose channels are integers of 0..255, toHex() is a string
\* of 7 characters, # and two hexadecimal digits for each channel in the
\* order r, g, b, the leading zero written; and Color.create and Color.fromHex
\* of that string give a Color whose toRgb() is the same {r, g, b}.
C17_HexRoundTrip ==
    (/\ instance # NoColor
     /\ IsByte(instance._r)
     /\ IsByte(instance._g)
     /\ IsByte(instance._b)) =>
        LET hex == toHex(instance)
        IN  /\ Len(hex) = 7
            /\ hex[1] = "#"
            /\ \A i \in 2..7 : Has(HexDigits, hex[i])
            /\ Num(2 * PairValue(hex[2], hex[3])) = instance._r
            /\ Num(2 * PairValue(hex[4], hex[5])) = instance._g
            /\ Num(2 * PairValue(hex[6], hex[7])) = instance._b
            /\ create(Str(hex)).thrown = "none"
            /\ toRgb(create(Str(hex)).color) = Obj(instance._r, instance._g, instance._b)
            /\ fromHex(Str(hex)).thrown = "none"
            /\ toRgb(fromHex(Str(hex)).color) = Obj(instance._r, instance._g, instance._b)

\* the Color {r: 10, g: 171, b: 255} has just been made again from its toHex()
C17_Witness ==
    /\ call = "toHex"
    /\ thrown = "none"
    /\ instance = [_r |-> Num(20), _g |-> Num(342), _b |-> Num(510)]
    /\ toHex(instance) = <<"#", "0", "a", "a", "b", "f", "f">>

\* the whole string is rgb(r, g, b), each channel one to three digits
IsRgbForm(chars) ==
    \E a \in 1..3, b \in 1..3, c \in 1..3 :
        Len(chars) = a + b + c + 9 /\ RgbMatchesAt(chars, 1, a, b, c)

\* the whole string is #RRGGBB
IsHexForm(chars) == Len(chars) = 7 /\ <<1>> \in HexMatches(chars)

\* the value is of one of the four forms: a name of the dictionary in any
\* case, the rgb form, the hex form, or a record that has r, g and b
IsColorForm(value) ==
    \/ /\ TypeOf(value) = "string"
       /\ \/ toUpperCase(value.chars) \in DOMAIN COLORS
          \/ IsRgbForm(value.chars)
          \/ IsHexForm(value.chars)
    \/ /\ TypeOf(value) = "object"
       /\ value.r # Missing
       /\ value.g # Missing
       /\ value.b # Missing

\* C18: Color.create makes a Color from a name of the dictionary in any case,
\* from the rgb(r, g, b) form, from the #RRGGBB form and from a record that
\* has r, g and b, and from nothing else: any other value, a record that lacks
\* a channel among them, makes it throw, and no Color is made.
C18_OnlyTheFourFormsAreAccepted ==
    [][\A value \in CreateInputs :
          newColor(value) =>
              IF IsColorForm(value)
              THEN thrown' = "none" /\ instance' # NoColor
              ELSE thrown' # "none" /\ instance' = instance
      ]_vars

-----------------------------------------------------------------------------
(* the erase variants *)

\* the call has done what erase does on the rectangle, has changed no slot but
\* those of the rectangle that are on the grid, and has left the cursor
\* position and the pen as they were
ErasesTheRectangle(x1, y1, x2, y2) ==
    /\ _terminal' = erase(x1, y1, x2, y2).terminal
    /\ thrown' = erase(x1, y1, x2, y2).thrown
    /\ \A p \in Pointers : _terminal'[p] # _terminal[p] => p \in RectSlots(x1, y1, x2, y2)
    /\ _x' = _x
    /\ _y' = _y
    /\ _background' = _background
    /\ _foreground' = _foreground
    /\ _display' = _display

\* C19: each erase variant acts as erase on its rectangle, taken from the
\* cursor position (x, y), on the grid or off it, and the bounds of the grid:
\* eraseToEnd on row y from column x to the last, eraseToStart on row y from
\* the first column to x, eraseToDown on the rows from y to the last,
\* eraseToUp on the rows from the first to y, eraseLine on row y, eraseScreen
\* on the whole grid; each changes only slots of its rectangle that are on
\* the grid, and leaves the cursor position and the pen alone.
C19_VariantsEraseTheirRectangle ==
    [][/\ eraseToEnd => ErasesTheRectangle(_x, _y, Width - 1, _y)
       /\ eraseToStart => ErasesTheRectangle(0, _y, _x, _y)
       /\ eraseToDown => ErasesTheRectangle(0, _y, Width - 1, Height - 1)
       /\ eraseToUp => ErasesTheRectangle(0, 0, Width - 1, _y)
       /\ eraseLine => ErasesTheRectangle(0, _y, Width - 1, _y)
       /\ eraseScreen => ErasesTheRectangle(0, 0, Width - 1, Height - 1)
      ]_vars

-----------------------------------------------------------------------------
(* movement *)

\* the grid, the pen and the snapshot are as they were
KeepsAllButThePosition ==
    /\ _terminal' = _terminal
    /\ _lastFrame' = _lastFrame
    /\ _background' = _background
    /\ _foreground' = _foreground
    /\ _display' = _display

\* C20: moveBy(dx, dy) leaves the cursor at exactly (x + dx, y + dy), on the
\* grid or off it, a zero component moving nothing, and moveBy(-dx, -dy) made
\* next would lead back to (x, y); moveTo(a, b) leaves it at exactly (a, b);
\* up, down, left and right by n change their own coordinate by n and not the
\* other; no movement changes the grid, the pen or the snapshot.
C20_MovementIsExact ==
    [][/\ call' = "moveBy" =>
            \A dx \in OffsetInputs, dy \in OffsetInputs :
                moveBy(dx, dy) =>
                    /\ _x' = _x + dx
                    /\ _y' = _y + dy
                    /\ (moveByX(0 - dx))' = _x
                    /\ (moveByY(0 - dy))' = _y
                    /\ KeepsAllButThePosition
       /\ call' = "moveTo" =>
            \A position \in MoveToInputs :
                moveTo(position[1], position[2]) =>
                    _x' = position[1] /\ _y' = position[2] /\ KeepsAllButThePosition
       /\ call' \in {"up", "down", "left", "right"} =>
            \A n \in MoveInputs :
                /\ up(n) => _y' = _y - n /\ _x' = _x /\ KeepsAllButThePosition
                /\ down(n) => _y' = _y + n /\ _x' = _x /\ KeepsAllButThePosition
                /\ left(n) => _x' = _x - n /\ _y' = _y /\ KeepsAllButThePosition
                /\ right(n) => _x' = _x + n /\ _y' = _y /\ KeepsAllButThePosition
      ]_vars

\* moveBy has just taken the cursor off the grid, left of it and below it,
\* over a buffer that holds a cell
C20_Witness ==
    /\ call = "moveBy"
    /\ _x = 0 - 1
    /\ _y = Height
    /\ \E p \in Pointers : IsCell(_terminal[p])

-----------------------------------------------------------------------------
(* the grid *)

\* every slot is unwritten or holds a cell whose own x and y are on the grid
\* and are those of the slot, and the array has no slot beyond width * height
GridIsWellFormed ==
    /\ DOMAIN _terminal \subseteq 0..(Width * Height - 1)
    /\ \A i \in DOMAIN _terminal :
          IsCell(_terminal[i]) =>
              /\ 0 <= _terminal[i].x
              /\ _terminal[i].x < Width
              /\ 0 <= _terminal[i].y
              /\ _terminal[i].y < Height
              /\ _terminal[i].y * Width + _terminal[i].x = i

\* C21: in every reachable state each slot i of the grid is unwritten or holds
\* a Cell whose own coordinates are on the grid and give y * width + x = i,
\* and the grid has no more than width * height slots; and no call (write,
\* erase, move, pen setter, flush) makes a written slot unwritten.
C21_GridIsWellFormed ==
    /\ []GridIsWellFormed
    /\ [][\A i \in DOMAIN _terminal :
            IsCell(_terminal[i]) => i \in DOMAIN _terminal' /\ IsCell(_terminal'[i])]_vars

\* an erase has just blanked the cell of the last slot, which is still a cell
\* at its own position, beside a cell that was written and not erased
C21_Witness ==
    /\ call = "erase"
    /\ thrown = "none"
    /\ IsCell(_terminal[Width * Height - 1])
    /\ _terminal[Width * Height - 1].char = " "
    /\ _terminal[Width * Height - 1].x = Width - 1
    /\ _terminal[Width * Height - 1].y = Height - 1
    /\ \E i \in DOMAIN _terminal : IsCell(_terminal[i]) /\ _terminal[i].char # " "
====
